---------------------------- MODULE Spec2Model ----------------------------
(***************************************************************************)
(* Model of src/lqr_solve.cpp: compGainMatrix, the discrete-time infinite  *)
(* horizon LQR gain computed by fixed-point iteration of the Riccati       *)
(* recurrence.                                                             *)
(*                                                                         *)
(* Numbers.  A double is modelled as an exact rational <<num, den>> in     *)
(* lowest terms with den > 0 (rounding is not modelled), or as the token   *)
(* NaN = <<0, 0>>, which stands for every value that a division by zero    *)
(* has polluted (+inf, -inf, NaN).  Arithmetic on NaN yields NaN and every *)
(* comparison with NaN is false, as for IEEE inf/NaN under fabs(x) < eps.  *)
(*                                                                         *)
(* Matrices.  An Eigen dynamic matrix is the sequence of its rows; <<>> is *)
(* the default-constructed 0 x 0 matrix.  The input matrices have at least *)
(* one row and one column.                                                 *)
(***************************************************************************)
EXTENDS Integers, Sequences, FiniteSets, TLC

\* ------------------------------------------------------------------ bounds
\* Largest row / column count of an input matrix.
MaxDim == 2
\* Iterations of the Riccati loop the model follows before it stops looking.
MaxIter == 3
\* Largest numerator or denominator of an entry of P the model follows: a call
\* whose next iterate leaves this range is not followed further.
MaxMag == 120
\* Calls of compGainMatrix that SpecCalls follows one after the other.
MaxCalls == 3

\* --------------------------------------------------------------- rationals
Abs(x) == IF x < 0 THEN -x ELSE x

RECURSIVE GCD(_, _)
GCD(a, b) == IF b = 0 THEN a ELSE GCD(b, a % b)

NaN == <<0, 0>>
IsFin(x) == x[2] # 0

Num(n) == <<n, 1>>
Zero == Num(0)
One == Num(1)

\* n/d in lowest terms with a positive denominator; d = 0 is a division by zero
Frac(n, d) ==
  IF d = 0 THEN NaN
  ELSE LET g == GCD(Abs(n), Abs(d))
           s == IF d < 0 THEN -1 ELSE 1
       IN <<s * (n \div g), s * (d \div g)>>

\* x + y over the least common denominator
RAdd(x, y) ==
  IF IsFin(x) /\ IsFin(y)
  THEN IF x[1] = 0 THEN y
       ELSE IF y[1] = 0 THEN x
       ELSE LET g == GCD(x[2], y[2])
            IN Frac(x[1] * (y[2] \div g) + y[1] * (x[2] \div g), (x[2] \div g) * y[2])
  ELSE NaN
RNeg(x) == IF IsFin(x) THEN <<-x[1], x[2]>> ELSE NaN
RSub(x, y) == RAdd(x, RNeg(y))
\* x * y, common factors cancelled before the products are formed
RMul(x, y) ==
  IF IsFin(x) /\ IsFin(y)
  THEN IF x[1] = 0 \/ y[1] = 0 THEN Zero
       ELSE LET g1 == GCD(Abs(x[1]), y[2])
                g2 == GCD(Abs(y[1]), x[2])
            IN Frac((x[1] \div g1) * (y[1] \div g2), (x[2] \div g2) * (y[2] \div g1))
  ELSE NaN
\* x / y; y = 0 gives a non-finite value
RInv(y) == IF IsFin(y) THEN Frac(y[2], y[1]) ELSE NaN
RDiv(x, y) == RMul(x, RInv(y))
\* fabs
RAbs(x) == IF IsFin(x) THEN <<Abs(x[1]), x[2]>> ELSE NaN
\* operator< on doubles: false as soon as one side is not finite
RLess(x, y) == IsFin(x) /\ IsFin(y) /\ x[1] * y[2] < y[1] * x[2]

\* ---------------------------------------------------------------- matrices
Rows(M) == Len(M)
Cols(M) == IF Len(M) = 0 THEN 0 ELSE Len(M[1])

\* The matrix with r rows and c columns whose entries are those of the function
\* M, as a sequence of sequences (each entry is computed once).
RECURSIVE RowSeq(_, _)
RowSeq(row, c) == IF c = 0 THEN <<>> ELSE Append(RowSeq(row, c - 1), row[c])
RECURSIVE MatSeq(_, _, _)
MatSeq(M, r, c) == IF r = 0 THEN <<>> ELSE Append(MatSeq(M, r - 1, c), RowSeq(M[r], c))

Transpose(M) ==
  MatSeq([j \in 1..Cols(M) |-> [i \in 1..Rows(M) |-> M[i][j]]], Cols(M), Rows(M))

MAdd(X, Y) ==
  MatSeq([i \in 1..Rows(X) |-> [j \in 1..Cols(X) |-> RAdd(X[i][j], Y[i][j])]],
         Rows(X), Cols(X))
MSub(X, Y) ==
  MatSeq([i \in 1..Rows(X) |-> [j \in 1..Cols(X) |-> RSub(X[i][j], Y[i][j])]],
         Rows(X), Cols(X))

RECURSIVE Dot(_, _, _)
Dot(u, v, k) == IF k = 0 THEN Zero ELSE RAdd(Dot(u, v, k - 1), RMul(u[k], v[k]))

MMul(X, Y) ==
  LET YT == Transpose(Y)
  IN MatSeq([i \in 1..Rows(X) |-> [j \in 1..Cols(Y) |-> Dot(X[i], YT[j], Cols(X))]],
            Rows(X), Cols(Y))

\* M without row r and column c
Minor(M, r, c) ==
  MatSeq([i \in 1..(Rows(M) - 1) |->
           [j \in 1..(Cols(M) - 1) |->
             M[IF i < r THEN i ELSE i + 1][IF j < c THEN j ELSE j + 1]]],
         Rows(M) - 1, Cols(M) - 1)

Sign(k) == IF k % 2 = 0 THEN One ELSE Num(-1)

RECURSIVE Det(_)
RECURSIVE DetRow(_, _)
\* Laplace expansion along the first row, columns 1..k
DetRow(M, k) ==
  IF k = 0 THEN Zero
  ELSE RAdd(DetRow(M, k - 1), RMul(RMul(Sign(1 + k), M[1][k]), Det(Minor(M, 1, k))))
Det(M) == IF Rows(M) = 0 THEN One ELSE DetRow(M, Cols(M))

\* MatrixBase::inverse() of a square dynamic matrix: the inverse when there is
\* one; a singular matrix is divided by a zero pivot and comes back non-finite
Inverse(M) ==
  LET d == Det(M)
  IN MatSeq([i \in 1..Rows(M) |-> [j \in 1..Cols(M) |->
               RDiv(RMul(Sign(i + j), Det(Minor(M, j, i))), d)]],
            Rows(M), Cols(M))

Entries(M) == {M[i][j] : i \in 1..Rows(M), j \in 1..Cols(M)}
AllFinite(M) == \A x \in Entries(M) : IsFin(x)
NoneFinite(M) == \A x \in Entries(M) : ~IsFin(x)

\* every entry is non-finite or has numerator and denominator within MaxMag
InRange(M) == \A x \in Entries(M) : Abs(x[1]) <= MaxMag /\ x[2] <= MaxMag

\* DenseBase::maxCoeff(): the largest coefficient (signed)
maxCoeff(M) ==
  IF ~AllFinite(M) THEN NaN
  ELSE CHOOSE x \in Entries(M) : \A y \in Entries(M) : ~RLess(x, y)


\* ------------------------------------------------------------------- state
VARIABLES
  A, B, Q, R, N,      \* the five input matrices (const references)
  eps,                \* the convergence threshold
  K,                  \* the caller's matrix behind the pointer K
  B_T, Acal, Acal_T, Qcal,   \* the precomputed locals
  P, Pold, delta,     \* the iterate, the previous iterate, their difference
  numIterations,      \* the loop counter
  pc,                 \* "start", "loop", "gain", "done"
  result,             \* the value returned: "none" until the call returns
  out,                \* what the call has written to std::cout
  Kin,                \* history: K as the caller passed it to this call
  evals,              \* history: evaluations of the recurrence in this call
  callNo, hist        \* history: the calls made so far and what each returned

inputs == <<A, B, Q, R, N>>
locals == <<B_T, Acal, Acal_T, Qcal, P, Pold, delta, numIterations>>
ghosts == <<Kin, evals, callNo, hist>>
vars == <<inputs, eps, K, locals, pc, result, out, ghosts>>

\* a local that has not been constructed yet
Unset == <<>>

MsgIncompatible == "One or more matrices have incompatible dimensions. Aborting."
MsgIterations(k) == <<"Number of iterations until convergence: ", k>>

\* ------------------------------------------------------------------ inputs
Dims == 1..MaxDim
Shapes == Dims \X Dims

\* d on the diagonal, o above it, 0 below it
Fill(r, c, d, o) ==
  MatSeq([i \in 1..r |-> [j \in 1..c |-> IF i = j THEN d ELSE IF i < j THEN o ELSE Zero]],
         r, c)

AVals == {Num(0), Num(1), Num(2)}
AOffVals == {Num(0), Num(1)}
BVals == {Num(0), Num(1)}
QVals == {Num(-1), Num(0), Num(1), Num(2)}
RVals == {Num(-1), Num(0), Num(1), Num(2)}
NVals == {Num(0), Num(1)}
EpsSet == {Num(0), <<1, 2>>, Num(5)}
\* K before the call: default-constructed (as in main), or a 1 x 1 matrix
KPrior == {<<>>, <<<<Num(7)>>>>}

\* (mutant) the dimension check with R compared with A instead of B
CompatibleRvsA(a, b, q, r, n) ==
  ~(\/ Rows(a) # Cols(a) \/ Rows(b) # Rows(a) \/ Rows(q) # Cols(q)
    \/ Rows(q) # Rows(a) \/ Rows(r) # Cols(r) \/ Rows(r) # Rows(a)
    \/ Rows(n) # Rows(a) \/ Cols(n) # Cols(b))

\* the condition of the if statement, negated
Compatible(a, b, q, r, n) ==
  ~(\/ Rows(a) # Cols(a) \/ Rows(b) # Rows(a) \/ Rows(q) # Cols(q)
    \/ Rows(q) # Rows(a) \/ Rows(r) # Cols(r) \/ Rows(r) # Cols(b)
    \/ Rows(n) # Rows(a) \/ Cols(n) # Cols(b))

ShapesCompatible(sa, sb, sq, sr, sn) ==
  /\ sa[1] = sa[2] /\ sb[1] = sa[1] /\ sq[1] = sq[2] /\ sq[1] = sa[1]
  /\ sr[1] = sr[2] /\ sr[1] = sb[2] /\ sn[1] = sa[1] /\ sn[2] = sb[2]

InitLocals ==
  /\ B_T = Unset /\ Acal = Unset /\ Acal_T = Unset /\ Qcal = Unset
  /\ P = Unset /\ Pold = Unset /\ delta = Unset
  /\ numIterations = 0

\* Inputs whose shapes pass the dimension check: every shape, values from the
\* sets above.
CompatibleInit ==
  \E n \in Dims, m \in Dims :
    \E a \in AVals, ao \in AOffVals, b \in BVals, q \in QVals, r \in RVals, c \in NVals :
      /\ A = Fill(n, n, a, ao)
      /\ B = Fill(n, m, b, Zero)
      /\ Q = Fill(n, n, q, Zero)
      /\ R = Fill(m, m, r, Zero)
      /\ N = Fill(n, m, c, Zero)
      /\ eps \in EpsSet

\* Inputs whose shapes fail the dimension check: every combination of shapes
\* (the entries and the threshold are never read).
IncompatibleInit ==
  \E sa \in Shapes, sb \in Shapes, sq \in Shapes, sr \in Shapes, sn \in Shapes :
    /\ ~ShapesCompatible(sa, sb, sq, sr, sn)
    /\ A = Fill(sa[1], sa[2], One, Zero)
    /\ B = Fill(sb[1], sb[2], One, Zero)
    /\ Q = Fill(sq[1], sq[2], One, Zero)
    /\ R = Fill(sr[1], sr[2], One, Zero)
    /\ N = Fill(sn[1], sn[2], Zero, Zero)
    /\ eps = <<1, 2>>

\* The caller has built the matrices and is about to call compGainMatrix.  K is
\* a non-empty matrix or default-constructed; to keep the state space small the
\* default-constructed K comes with one threshold only when the shapes pass.
Init ==
  /\ \/ CompatibleInit /\ K \in (IF eps = <<1, 2>> THEN KPrior ELSE {<<<<Num(7)>>>>})
     \/ IncompatibleInit /\ K \in KPrior
  /\ Kin = K
  /\ InitLocals
  /\ pc = "start" /\ result = "none" /\ out = <<>>
  /\ evals = 0 /\ callNo = 1 /\ hist = <<>>

\* -------------------------------------------------------------- operations
\* Mtx Acal = A - B * R.inverse() * N.transpose();
AcalOf(a, b, r, n) == MSub(a, MMul(MMul(b, Inverse(r)), Transpose(n)))
\* Mtx Qcal = Q - N * R.inverse() * N.transpose();
QcalOf(q, r, n) == MSub(q, MMul(MMul(n, Inverse(r)), Transpose(n)))

\* (mutant) the recurrence with the two products added
RiccatiPlus(p) ==
  LET AtP == MMul(Acal_T, p)
      S == MAdd(R, MMul(MMul(B_T, p), B))
      t1 == MMul(AtP, Acal)
      t2 == MMul(MMul(MMul(MMul(MMul(AtP, B), Inverse(S)), B_T), p), Acal)
  IN MAdd(MAdd(t1, t2), Qcal)

\* P = Acal_T * P * Acal
\*     - Acal_T * P * B * (R + B_T * P * B).inverse() * B_T * P * Acal + Qcal;
Riccati(p) ==
  LET AtP == MMul(Acal_T, p)
      S == MAdd(R, MMul(MMul(B_T, p), B))
      t1 == MMul(AtP, Acal)
      t2 == MMul(MMul(MMul(MMul(MMul(AtP, B), Inverse(S)), B_T), p), Acal)
  IN MAdd(MSub(t1, t2), Qcal)

\* (mutant) the test with <= in place of <
ConvergedLeq(d, e) ==
  LET x == RAbs(maxCoeff(d)) IN IsFin(x) /\ ~RLess(e, x)

\* fabs(delta.maxCoeff()) < eps
Converged(d, e) == RLess(RAbs(maxCoeff(d)), e)

\* (mutant) the gain stored transposed
GainOfTransposed(p) ==
  Transpose(MMul(Inverse(MAdd(R, MMul(MMul(B_T, p), B))),
                 MAdd(MMul(MMul(B_T, p), A), Transpose(N))))

\* (mutant) the gain computed from the adjusted state matrix
GainOfAcal(p) ==
  MMul(Inverse(MAdd(R, MMul(MMul(B_T, p), B))),
       MAdd(MMul(MMul(B_T, p), Acal), Transpose(N)))

\* *K = (R + B_T * P * B).inverse() * (B_T * P * A + N.transpose());
GainOf(p) ==
  MMul(Inverse(MAdd(R, MMul(MMul(B_T, p), B))),
       MAdd(MMul(MMul(B_T, p), A), Transpose(N)))

\* (mutant) the failure path clears the output matrix before it returns
AbortClearsK ==
  /\ pc = "start"
  /\ ~Compatible(A, B, Q, R, N)
  /\ out' = Append(out, MsgIncompatible)
  /\ K' = <<>>
  /\ result' = "false"
  /\ pc' = "done"
  /\ UNCHANGED <<inputs, eps, locals, ghosts>>

\* the dimension check fails: the message, then return false
Abort ==
  /\ pc = "start"
  /\ ~Compatible(A, B, Q, R, N)
  /\ out' = Append(out, MsgIncompatible)
  /\ result' = "false"
  /\ pc' = "done"
  /\ UNCHANGED <<inputs, eps, K, locals, ghosts>>

\* (mutant) the counter keeps its value from the call before
PrecomputeKeepsCounter ==
  /\ pc = "start"
  /\ Compatible(A, B, Q, R, N)
  /\ B_T' = Transpose(B)
  /\ Acal' = AcalOf(A, B, R, N)
  /\ Acal_T' = Transpose(Acal')
  /\ Qcal' = QcalOf(Q, R, N)
  /\ P' = Q
  /\ Pold' = P'
  /\ pc' = "loop"
  /\ UNCHANGED <<inputs, eps, K, delta, numIterations, result, out, ghosts>>

\* the dimension check passes: the precomputed matrices, P, the counter, Pold
Precompute ==
  /\ pc = "start"
  /\ Compatible(A, B, Q, R, N)
  /\ B_T' = Transpose(B)
  /\ Acal' = AcalOf(A, B, R, N)
  /\ Acal_T' = Transpose(Acal')
  /\ Qcal' = QcalOf(Q, R, N)
  /\ P' = Q
  /\ numIterations' = 0
  /\ Pold' = P'
  /\ pc' = "loop"
  /\ UNCHANGED <<inputs, eps, K, delta, result, out, ghosts>>

\* (mutant) Pold is not updated at the end of a pass
IterateStalePold ==
  /\ pc = "loop"
  /\ numIterations < MaxIter
  /\ numIterations' = numIterations + 1
  /\ P' = Riccati(P)
  /\ InRange(P')
  /\ delta' = MSub(P', Pold)
  /\ IF Converged(delta', eps)
     THEN /\ out' = Append(out, MsgIterations(numIterations'))
          /\ pc' = "gain"
     ELSE /\ pc' = "loop"
          /\ out' = out
  /\ Pold' = Pold
  /\ evals' = evals + 1
  /\ UNCHANGED <<inputs, eps, K, B_T, Acal, Acal_T, Qcal, result, Kin, callNo, hist>>

\* (mutant) the counter is incremented at the end of a pass, after the message
IterateCountsLate ==
  /\ pc = "loop"
  /\ numIterations < MaxIter
  /\ numIterations' = numIterations + 1
  /\ P' = Riccati(P)
  /\ InRange(P')
  /\ delta' = MSub(P', Pold)
  /\ IF Converged(delta', eps)
     THEN /\ out' = Append(out, MsgIterations(numIterations))
          /\ pc' = "gain"
          /\ Pold' = Pold
     ELSE /\ Pold' = P'
          /\ pc' = "loop"
          /\ out' = out
  /\ evals' = evals + 1
  /\ UNCHANGED <<inputs, eps, K, B_T, Acal, Acal_T, Qcal, result, Kin, callNo, hist>>

\* One pass of the loop body: the counter, the new P, delta, and then either the
\* message and the break, or Pold = P and the next pass.
Iterate ==
  /\ pc = "loop"
  /\ numIterations < MaxIter
  /\ numIterations' = numIterations + 1
  /\ P' = Riccati(P)
  /\ InRange(P')
  /\ delta' = MSub(P', Pold)
  /\ IF Converged(delta', eps)
     THEN /\ out' = Append(out, MsgIterations(numIterations'))
          /\ pc' = "gain"
          /\ Pold' = Pold
     ELSE /\ Pold' = P'
          /\ pc' = "loop"
          /\ out' = out
  /\ evals' = evals + 1
  /\ UNCHANGED <<inputs, eps, K, B_T, Acal, Acal_T, Qcal, result, Kin, callNo, hist>>

\* after the loop: K is written and the call returns true
Gain ==
  /\ pc = "gain"
  /\ K' = GainOf(P)
  /\ result' = "true"
  /\ pc' = "done"
  /\ UNCHANGED <<inputs, eps, locals, out, ghosts>>

Next == Abort \/ Precompute \/ Iterate \/ Gain

Spec == Init /\ [][Next]_vars

\* ------------------------------------------------------- successive calls
\* What the caller sees of a call that has returned.
Returned ==
  [args |-> <<A, B, Q, R, N, eps>>, result |-> result, K |-> K,
   iters |-> IF result = "true" THEN numIterations ELSE 0, out |-> out]

\* The caller calls compGainMatrix again: the same matrix objects, the same K
\* object (it now holds what the call before left in it), any threshold.  The
\* new call's locals are fresh automatic variables: they hold whatever the
\* frame held, here the values of the call before, until they are initialised.
CallAgain ==
  /\ pc = "done"
  /\ callNo < MaxCalls
  /\ hist' = Append(hist, Returned)
  /\ callNo' = callNo + 1
  /\ eps' \in EpsSet
  /\ Kin' = K
  /\ evals' = 0
  /\ out' = <<>>
  /\ result' = "none"
  /\ pc' = "start"
  /\ UNCHANGED <<inputs, K, locals>>

CallsCompatibleInit ==
  \E n \in Dims, m \in Dims, q \in {One, Num(2)}, r \in {One, Num(2)}, c \in NVals :
    /\ A = Fill(n, n, One, One)
    /\ B = Fill(n, m, One, Zero)
    /\ Q = Fill(n, n, q, Zero)
    /\ R = Fill(m, m, r, Zero)
    /\ N = Fill(n, m, c, Zero)

CallsIncompatibleInit ==
  \E sa \in Shapes :
    /\ sa[1] # sa[2]
    /\ A = Fill(sa[1], sa[2], One, Zero)
    /\ B = Fill(1, 1, One, Zero)
    /\ Q = Fill(1, 1, One, Zero)
    /\ R = Fill(1, 1, One, Zero)
    /\ N = Fill(1, 1, Zero, Zero)

InitCalls ==
  /\ CallsCompatibleInit \/ CallsIncompatibleInit
  /\ eps \in EpsSet
  /\ K \in KPrior
  /\ Kin = K
  /\ InitLocals
  /\ pc = "start" /\ result = "none" /\ out = <<>>
  /\ evals = 0 /\ callNo = 1 /\ hist = <<>>

NextCalls == Abort \/ Precompute \/ Iterate \/ Gain \/ CallAgain

SpecCalls == InitCalls /\ [][NextCalls]_vars

\* ------------------------------------------------------------------ claims
\* The shape relations of the data model, as the specification lists them.
ShapeRelations ==
  /\ Rows(A) = Cols(A)
  /\ Rows(B) = Rows(A)
  /\ Rows(Q) = Cols(Q) /\ Cols(Q) = Rows(A)
  /\ Rows(R) = Cols(R) /\ Cols(R) = Cols(B)
  /\ Rows(N) = Rows(A)
  /\ Cols(N) = Cols(B)

Failed == pc = "done" /\ result = "false"
Succeeded == pc = "done" /\ result = "true"

\* C1: a call that returns has returned failure exactly when at least one shape
\* relation is violated; no dimensionally consistent input is rejected.
C1_FailureIffMismatch ==
  /\ pc = "done" => (result = "false" <=> ~ShapeRelations)
  /\ pc \in {"loop", "gain"} => ShapeRelations

\* C1 witness: R is 2 x 2 while B has one column, every other relation holds,
\* and the call has returned failure.
C1_Witness ==
  /\ Failed
  /\ Rows(R) = 2 /\ Cols(R) = 2 /\ Cols(B) = 1
  /\ Rows(A) = Cols(A) /\ Rows(B) = Rows(A)
  /\ Rows(Q) = Cols(Q) /\ Cols(Q) = Rows(A)
  /\ Rows(N) = Rows(A) /\ Cols(N) = Cols(B)

\* C2: when the call fails on a dimension mismatch nothing has been computed:
\* no iteration has run, P and the precomputed matrices were never initialised,
\* and K is exactly what the caller passed.
C2_FailureBeforeComputation ==
  Failed =>
    /\ numIterations = 0 /\ evals = 0
    /\ P = Unset /\ Pold = Unset /\ delta = Unset
    /\ B_T = Unset /\ Acal = Unset /\ Acal_T = Unset /\ Qcal = Unset
    /\ K = Kin
    /\ out = <<MsgIncompatible>>

\* C2 witness: a failed call whose K was a non-empty matrix.
C2_Witness == Failed /\ Kin = <<<<Num(7)>>>> /\ K = Kin

\* From such a state the test fabs(delta.maxCoeff()) < eps is false in every later
\* pass: the threshold is not positive, or P is non-finite and stays so.
NeverReturns == pc = "loop" /\ (~RLess(Zero, eps) \/ ~AllFinite(P))

\* C3 (as amended): a dimensionally consistent input is never rejected, and
\* whenever its call returns, it returns success and K has cols(B) rows and
\* rows(A) columns, whatever K was before.
C3_SuccessShape ==
  ShapeRelations =>
    /\ result # "false"
    /\ pc = "done" => /\ result = "true"
                      /\ Rows(K) = Cols(B)
                      /\ Cols(K) = Rows(A)

\* C3 witness: a successful call that changed the shape of K.
C3_Witness ==
  /\ Succeeded
  /\ Rows(A) = 2 /\ Cols(B) = 1
  /\ Kin = <<<<Num(7)>>>>
  /\ Rows(K) = 1 /\ Cols(K) = 2

\* C3 (as claimed): every dimensionally consistent input returns success, so no
\* call on such an input is ever in a state from which it cannot return.
C3_EveryCompatibleInputReturns ==
  ShapeRelations => (C3_SuccessShape /\ ~NeverReturns)

\* C4 (as claimed): whenever the loop has been left, every entry of the last
\* delta is below the threshold in absolute value.
C4_EveryEntryBelowEps ==
  (pc = "gain" \/ Succeeded) => \A x \in Entries(delta) : RLess(RAbs(x), eps)

\* C5: two calls with identical A, B, Q, R, N and threshold return the same
\* flag, write the same K, report the same iteration count and print the same
\* message, whatever was called in between and whatever K held before.
C5_Deterministic ==
  pc = "done" =>
    \A i \in 1..Len(hist) :
      hist[i].args = Returned.args =>
        /\ hist[i].result = result
        /\ hist[i].iters = Returned.iters
        /\ hist[i].out = out
        /\ result = "true" => hist[i].K = K

\* C5 witness: the third call repeats the first call's inputs after a second
\* call with another threshold; it succeeded after at least two iterations and
\* started from a K other than the first call's.
C5_Witness ==
  /\ Succeeded
  /\ callNo = 3
  /\ hist[1].args = Returned.args
  /\ hist[2].args # Returned.args
  /\ hist[2].result = "true"
  /\ numIterations >= 2
  /\ Kin # <<>> /\ Kin # <<<<Num(7)>>>>

\* C6: on success (R + B^T P B) K = B^T P A + N^T with the original A and N,
\* where P is the last iterate the loop computed (the recurrence applied to the
\* iterate before it); K is that product's solution whenever R + B^T P B is
\* invertible, and non-finite otherwise.
C6_GainFromOriginalInputs ==
  Succeeded =>
    LET Bt == Transpose(B)
        S == MAdd(R, MMul(MMul(Bt, P), B))
        rhs == MAdd(MMul(MMul(Bt, P), A), Transpose(N))
    IN /\ P = Riccati(Pold)
       /\ AllFinite(P)
       /\ IF Det(S) # Zero
          THEN AllFinite(K) /\ MMul(S, K) = rhs
          ELSE NoneFinite(K)

\* C6 witness: a successful call with a cross term (N # 0, B # 0), so that the
\* adjusted state matrix differs from A, and a finite gain that is not zero.
C6_Witness ==
  /\ Succeeded
  /\ Acal # A
  /\ numIterations >= 2
  /\ AllFinite(K)
  /\ \E x \in Entries(K) : x # Zero

\* the scalar Riccati map p |-> a^2 p - a^2 b^2 p^2 / (r + b^2 p) + q
ScalarRiccati(a, b, q, r, p) ==
  RAdd(RSub(RMul(RMul(a, a), p),
            RDiv(RMul(RMul(RMul(a, a), RMul(b, b)), RMul(p, p)),
                 RAdd(r, RMul(RMul(b, b), p)))),
       q)

\* the scalar gain (b a p) / (r + b^2 p)
ScalarGain(a, b, r, p) == RDiv(RMul(RMul(b, a), p), RAdd(r, RMul(RMul(b, b), p)))

ScalarCase ==
  /\ Succeeded
  /\ Rows(A) = 1 /\ Cols(B) = 1
  /\ N[1][1] = Zero
  /\ R[1][1] # Zero

\* C7 (as amended): for a scalar system with N = 0 and r # 0, on success the
\* returned P is the Riccati map applied to the iterate before it, and it is
\* that earlier iterate that satisfies the Riccati equation to within the
\* threshold: |f(P_prev) - P_prev| < eps with P = f(P_prev).  K equals
\* (b a p) / (r + b^2 p) for the returned p (non-finite when r + b^2 p = 0).
C7_ScalarPreviousIterate ==
  ScalarCase =>
    LET a == A[1][1]
        b == B[1][1]
        q == Q[1][1]
        r == R[1][1]
        p == P[1][1]
        pp == Pold[1][1]
    IN /\ p = ScalarRiccati(a, b, q, r, pp)
       /\ RLess(RAbs(RSub(ScalarRiccati(a, b, q, r, pp), pp)), eps)
       /\ K = <<<<ScalarGain(a, b, r, p)>>>>

\* C7 witness: a scalar success after at least two iterations with a, b # 0.
C7_Witness ==
  /\ ScalarCase
  /\ numIterations >= 2
  /\ A[1][1] # Zero /\ B[1][1] # Zero
  /\ K[1][1] # Zero

\* C7 (as claimed): the P used to compute K satisfies the scalar Riccati
\* equation to within the threshold, and K equals (b a p) / (r + b^2 p).
C7_ScalarReturnedIterate ==
  ScalarCase =>
    LET a == A[1][1]
        b == B[1][1]
        q == Q[1][1]
        r == R[1][1]
        p == P[1][1]
    IN /\ RLess(RAbs(RSub(ScalarRiccati(a, b, q, r, p), p)), eps)
       /\ K = <<<<ScalarGain(a, b, r, p)>>>>

\* the test of the loop, spelled out: delta is finite, and its largest entry
\* (signed) has absolute value below the threshold
MaxEntryBelowEps(d, e) ==
  /\ AllFinite(d)
  /\ \E x \in Entries(d) :
       /\ \A y \in Entries(d) : ~RLess(x, y)
       /\ RLess(RAbs(x), e)

\* C8: after validation the call is in the loop until a pass whose delta passes
\* the test; only then does it go on to write K and return success.  It never
\* returns failure, there is no other way out of the loop, and a call whose test
\* cannot pass (threshold <= 0, non-finite P) stays in the loop.
C8_StateInv ==
  /\ (pc = "gain" \/ Succeeded) => MaxEntryBelowEps(delta, eps)
  /\ (ShapeRelations /\ ~RLess(Zero, eps)) => (pc \in {"start", "loop"} /\ result = "none")
  /\ (pc = "loop" /\ numIterations > 0) => ~MaxEntryBelowEps(delta, eps)
  /\ pc \in {"loop", "gain"} => result = "none"

C8_Step ==
  /\ pc = "loop" => /\ pc' \in {"loop", "gain"}
                    /\ pc' = "gain" <=> MaxEntryBelowEps(delta', eps)
                    /\ result' = "none" /\ K' = K
  /\ pc = "gain" => (pc' = "done" /\ result' = "true")
  /\ Succeeded' => (pc = "gain" \/ Succeeded)
  /\ NeverReturns => NeverReturns'

C8_IteratingThenConverged == []C8_StateInv /\ [][C8_Step]_vars

\* C8 witness: an oscillating input: after two passes P is back at Q with a
\* delta that is not zero, the threshold is positive, and the call is still in
\* the loop.
C8_Witness ==
  /\ pc = "loop"
  /\ numIterations = 2
  /\ P = Q
  /\ AllFinite(delta) /\ \E x \in Entries(delta) : x # Zero
  /\ RLess(Zero, eps)

\* the recurrence applied k times to Q
RECURSIVE Iterated(_)
Iterated(k) == IF k = 0 THEN Q ELSE Riccati(Iterated(k - 1))

\* C9: at the start of every pass Pold = P, both the recurrence applied
\* numIterations times to Q; each delta is the new iterate minus the one just
\* before it; the precomputed matrices are what they were computed to be, and
\* no pass changes them or the inputs.
C9_StateInv ==
  /\ pc = "loop" => /\ Pold = P
                    /\ numIterations = 0 => P = Q
  /\ (pc \in {"loop", "gain"} /\ numIterations > 0) =>
       LET prev == Iterated(numIterations - 1)
       IN /\ P = Riccati(prev)
          /\ delta = MSub(P, prev)
          /\ pc = "gain" => Pold = prev
  /\ pc \in {"loop", "gain"} =>
       /\ B_T = Transpose(B)
       /\ Acal = MSub(A, MMul(MMul(B, Inverse(R)), Transpose(N)))
       /\ Acal_T = Transpose(Acal)
       /\ Qcal = MSub(Q, MMul(MMul(N, Inverse(R)), Transpose(N)))

C9_Step == pc = "loop" => UNCHANGED <<A, B, Q, R, N, eps, B_T, Acal, Acal_T, Qcal>>

C9_LoopInvariant == []C9_StateInv /\ [][C9_Step]_vars

\* C9 witness: the start of the third pass of a call on 2 x 2 matrices whose
\* iterates are finite and all different.
C9_Witness ==
  /\ pc = "loop"
  /\ numIterations = 2
  /\ Rows(A) = 2
  /\ AllFinite(P)
  /\ P # Q /\ P # Iterated(1) /\ Iterated(1) # Q

\* C10: a call that has returned has written exactly one message: on success
\* the iteration count, which is the number of evaluations of the recurrence
\* and at least 1, written before K is; on failure the incompatible-dimensions
\* message.  Before that nothing is written.
C10_Diagnostics ==
  /\ pc \in {"start", "loop"} => out = <<>>
  /\ pc = "gain" => /\ out = <<MsgIterations(numIterations)>>
                    /\ K = Kin
  /\ Succeeded => /\ out = <<MsgIterations(numIterations)>>
                  /\ numIterations = evals
                  /\ evals >= 1
  /\ Failed => out = <<MsgIncompatible>>

\* C10 witness: Q is already a fixed point (delta is zero in the first pass),
\* the call succeeded and reported one iteration.
C10_Witness ==
  /\ Succeeded
  /\ P = Q
  /\ \A x \in Entries(delta) : x = Zero
  /\ \E x \in Entries(Q) : x # Zero
  /\ out = <<MsgIterations(1)>>

TypeOK ==
  /\ pc \in {"start", "loop", "gain", "done"}
  /\ result \in {"none", "true", "false"}
  /\ numIterations \in 0..MaxIter

=============================================================================
